---- MODULE Spec2Model ----
(***************************************************************************)
(* HorizonService (app/backend/src/transactions/horizon.service.ts): the   *)
(* cached, backoff-gated, retrying query layer in front of Horizon.        *)
(*                                                                         *)
(* A getPayments call is an async function: it runs without interruption   *)
(* up to its first await (the upstream query.call()), and again from the   *)
(* settlement of that promise to the next await (the retry sleep) or to    *)
(* its return/throw.  The steps between two suspension points that touch   *)
(* no shared state (normalising the page, the memo look-ups, propagating   *)
(* the rejection to the catch block) are folded into the step that ends    *)
(* with the access to the shared caches.                                   *)
(*                                                                         *)
(* Time is kept relative to the clock: where the code stores a time stamp  *)
(* t = Date.now() and later reads Date.now() - t, the model stores the age *)
(* Date.now() - t itself, 0 when stamped, and Tick advances every age; a   *)
(* pending setTimeout is the time left until it is due.  An age stops      *)
(* growing once no comparison of the code can tell it from a larger one.   *)
(***************************************************************************)
EXTENDS Integers, Sequences, FiniteSets, TLC

VARIABLES
    cache,          \* this.cache: entries ordered least- to most-recently used
    backoffCache,   \* this.backoffCache: same layout
    calls,          \* one record per call slot: position and locals of a getPayments call
    last,           \* what the step just taken returned or threw, if it was a step of a call
    prev,           \* history: per cache key, the last completed call for it
    thr,            \* history: per cache key, the last Throttled rejection
    overlap         \* history: per cache key, calls for it have been in flight together

vars == <<cache, backoffCache, calls, last, prev, thr, overlap>>

-----------------------------------------------------------------------------
(* Program constants *)

maxRetries == 3
baseDelay == 50
maxDelay == 30000
backoffMax == 1000
backoffTtl == 300000

SERVICE_UNAVAILABLE == 503
BAD_GATEWAY == 502
BAD_REQUEST == 400
INTERNAL_SERVER_ERROR == 500

\* an upstream rejection that carries no response (network / transport failure)
NoStatus == 0

(* Configuration injected through AppConfigService, and the bounds of the model *)

network == "testnet"
CacheMaxItems == 2      \* configService.cacheMaxItems
CacheTtlMs == 100       \* configService.cacheTtlMs

\* call slots: the getPayments calls that may be in flight at the same time
Calls == {1, 2}

\* the amounts by which the clock advances between two steps
TickSteps == {baseDelay, backoffTtl}

\* statuses the upstream may answer a failed request with
Statuses == {400, 404, 429, 500, 501, 502, 503, 504, NoStatus}

-----------------------------------------------------------------------------
(* Values *)

None == <<>>
Some(v) == <<v>>

Min(a, b) == IF a < b THEN a ELSE b
Max(a, b) == IF a > b THEN a ELSE b

RECURSIVE Pow2(_)
Pow2(n) == IF n <= 0 THEN 1 ELSE 2 * Pow2(n - 1)

\* Query: the arguments of getPayments; asset and cursor are optional
Q1 == [accountId |-> "GD123", asset |-> None, limit |-> 20, cursor |-> None]
Q2 == [accountId |-> "GD123", asset |-> Some("USDC:GUSDC"), limit |-> 20, cursor |-> None]
Queries == {Q1}

\* further queries for the same account: the asset filter 'any', a page size, a cursor
Qany == [Q1 EXCEPT !.asset = Some("any")]
Q10 == [Q1 EXCEPT !.limit = 10]
Qcursor == [Q1 EXCEPT !.cursor = Some("token1")]
ManyQueries == {Q1, Q2, Qany, Q10, Qcursor}

\* queries that differ in the asset filter: none, two assets, the empty string
Qxlm == [Q1 EXCEPT !.asset = Some("XLM")]
Qblank == [Q1 EXCEPT !.asset = Some("")]
FilterQueries == {Q1, Q2, Qxlm, Qblank}

\* `${network}:${accountId}:${asset ?? 'any'}:${limit}:${cursor ?? 'start'}`
cacheKey(q) ==
    network \o ":" \o q.accountId \o ":"
        \o (IF q.asset = None THEN "any" ELSE q.asset[1]) \o ":"
        \o ToString(q.limit) \o ":"
        \o (IF q.cursor = None THEN "start" ELSE q.cursor[1])

Keys == {cacheKey(q) : q \in Queries \cup ManyQueries \cup FilterQueries}

\* Raw operation records of an upstream page; tx is the outcome of the record's
\* transaction() look-up: it fails, or gives a transaction with or without a memo
RecNative ==
    [type |-> "payment", asset_type |-> "native", asset_code |-> "", asset_issuer |-> "",
     amount |-> "10.0", created_at |-> "2024-01-01T00:00:00Z",
     transaction_hash |-> "hash1", paging_token |-> "token1",
     tx |-> [fails |-> FALSE, memo |-> Some("test memo")]]
RecCreate ==
    [type |-> "create_account", asset_type |-> "", asset_code |-> "", asset_issuer |-> "",
     amount |-> "", created_at |-> "2024-01-01T00:00:00Z",
     transaction_hash |-> "hash2", paging_token |-> "token2",
     tx |-> [fails |-> FALSE, memo |-> None]]
RecIssued ==
    [type |-> "path_payment_strict_send", asset_type |-> "credit_alphanum4",
     asset_code |-> "USDC", asset_issuer |-> "GUSDC",
     amount |-> "20.0", created_at |-> "2024-01-02T00:00:00Z",
     transaction_hash |-> "hash3", paging_token |-> "token3",
     tx |-> [fails |-> TRUE, memo |-> None]]

RecReceive ==
    [type |-> "path_payment_strict_receive", asset_type |-> "credit_alphanum12",
     asset_code |-> "EURCOIN", asset_issuer |-> "GEUR",
     amount |-> "30.0", created_at |-> "2024-01-03T00:00:00Z",
     transaction_hash |-> "hash4", paging_token |-> "token4",
     tx |-> [fails |-> FALSE, memo |-> None]]

Pages == {<<RecNative, RecCreate>>, <<RecIssued, RecNative>>}

\* every page of at most MaxPageLen of these records
Records == {RecNative, RecCreate, RecIssued, RecReceive}
MaxPageLen == 3
AllPages == UNION {[1..n -> Records] : n \in 0..MaxPageLen}

\* variant: a filter that keeps plain payments only
onlyPlainPayment(r) == r.type = "payment"

\* records.filter(record => record.type === 'payment' || ...)
IsPayment(r) ==
    r.type \in {"payment", "path_payment_strict_receive", "path_payment_strict_send"}

\* the memo of one payment record: try { tx = await payment.transaction(); memo =
\* tx.memo } catch { }, so it stays undefined when the look-up throws
memoOf(r) == IF r.tx.fails THEN None ELSE r.tx.memo

\* the item built from one payment record
toItem(r) ==
    [amount |-> r.amount,
     asset |-> IF r.asset_type # "" /\ r.asset_type # "native"
                 THEN r.asset_code \o ":" \o r.asset_issuer
                 ELSE "XLM",
     memo |-> memoOf(r),
     timestamp |-> r.created_at,
     txHash |-> r.transaction_hash,
     pagingToken |-> r.paging_token]

\* variant: a normalisation that ignores the asset filter
normalizeItemsUnfiltered(records, asset) ==
    LET pays == SelectSeq(records, IsPayment)
    IN [i \in 1..Len(pays) |-> toItem(pays[i])]

\* variant: a normalisation that leaves out a payment whose memo look-up failed
normalizeItemsSkipFailed(records, asset) ==
    LET pays == SelectSeq(records, LAMBDA r :
                    /\ IsPayment(r)
                    /\ ~r.tx.fails
                    /\ (asset = None \/ asset[1] = "" \/ toItem(r).asset = asset[1]))
    IN [i \in 1..Len(pays) |-> toItem(pays[i])]

\* variant: a normalisation whose items come in the order their memo look-ups
\* end, the failed ones last
normalizeItemsAsLookedUp(records, asset) ==
    LET kept(r) == /\ IsPayment(r)
                   /\ (asset = None \/ asset[1] = "" \/ toItem(r).asset = asset[1])
        found == SelectSeq(records, LAMBDA r : kept(r) /\ ~r.tx.fails)
        failed == SelectSeq(records, LAMBDA r : kept(r) /\ r.tx.fails)
    IN [i \in 1..Len(found \o failed) |-> toItem((found \o failed)[i])]

RECURSIVE normalizeItems(_, _)
normalizeItems(records, asset) ==
    IF records = <<>> THEN <<>>
    ELSE LET r == Head(records)
             rest == normalizeItems(Tail(records), asset)
         IN IF IsPayment(r) /\ (asset = None \/ asset[1] = "" \/ toItem(r).asset = asset[1])
              THEN <<toItem(r)>> \o rest
              ELSE rest

\* variant: a result whose nextCursor is the paging token of its last item
normalizeCursorOfItems(records, asset) ==
    LET items == normalizeItems(records, asset)
    IN [items |-> items,
        nextCursor |-> IF Len(items) > 0 THEN Some(items[Len(items)].pagingToken) ELSE None]

\* the TransactionResponseDto returned by one successful attempt
normalize(records, asset) ==
    [items |-> normalizeItems(records, asset),
     nextCursor |-> IF Len(records) > 0 THEN Some(records[Len(records)].paging_token) ELSE None]

-----------------------------------------------------------------------------
(* lru-cache, as configured by the constructor: a sequence of entries       *)
(* [k, v, age], least recently used first; age is the time since the entry  *)
(* was set (or, with updateAgeOnGet, last read).                            *)

lruHas(s, k) == \E i \in 1..Len(s) : s[i].k = k
lruIdx(s, k) == CHOOSE i \in 1..Len(s) : s[i].k = k
lruEntry(s, k) == s[lruIdx(s, k)]
lruRemove(s, k) == SelectSeq(s, LAMBDA e : e.k # k)

\* variant: an entry that is already stale when its age reaches the ttl
lruStaleAtTtl(e, ttl) == e.age >= ttl

\* an entry is stale once its age exceeds the ttl
lruStale(e, ttl) == e.age > ttl

\* what get(k) returns: None when absent or stale
lruGet(s, k, ttl) ==
    IF lruHas(s, k) /\ ~lruStale(lruEntry(s, k), ttl) THEN Some(lruEntry(s, k).v) ELSE None

\* variant: a get(k) that restarts the age of a live entry but leaves it where it
\* is in the order of use
lruGetKeepsPlace(s, k, ttl, updateAgeOnGet) ==
    IF ~lruHas(s, k) THEN s
    ELSE LET e == lruEntry(s, k)
         IN IF lruStale(e, ttl) THEN lruRemove(s, k)
            ELSE [s EXCEPT ![lruIdx(s, k)].age = IF updateAgeOnGet THEN 0 ELSE e.age]

\* variant: a get(k) that restarts the age of a live entry whatever updateAgeOnGet is
lruGetRestartsAge(s, k, ttl, updateAgeOnGet) ==
    IF ~lruHas(s, k) THEN s
    ELSE LET e == lruEntry(s, k)
         IN IF lruStale(e, ttl) THEN lruRemove(s, k)
            ELSE Append(lruRemove(s, k), [e EXCEPT !.age = 0])

\* the store after get(k): a stale entry is dropped, a live one becomes the most
\* recently used and, with updateAgeOnGet, restarts its age
lruAfterGet(s, k, ttl, updateAgeOnGet) ==
    IF ~lruHas(s, k) THEN s
    ELSE LET e == lruEntry(s, k)
         IN IF lruStale(e, ttl) THEN lruRemove(s, k)
            ELSE Append(lruRemove(s, k),
                        [e EXCEPT !.age = IF updateAgeOnGet THEN 0 ELSE e.age])

\* the keys set(k, v) evicts: the least recently used one when the store is full
lruEvicted(s, k, max) ==
    IF ~lruHas(s, k) /\ Len(s) >= max /\ Len(s) > 0 THEN {s[1].k} ELSE {}

\* variant: a set(k, v) that keeps the value the store already holds for k
lruSetIfAbsent(s, k, v, max) ==
    IF lruHas(s, k) THEN Append(lruRemove(s, k), [lruEntry(s, k) EXCEPT !.age = 0])
    ELSE Append(IF Len(s) >= max /\ Len(s) > 0 THEN Tail(s) ELSE s,
                [k |-> k, v |-> v, age |-> 0])

\* variant: a set(k, v) that evicts the most recently used entry of a full store
lruSetEvictsNewest(s, k, v, max) ==
    LET kept == IF lruHas(s, k) THEN lruRemove(s, k)
                ELSE IF Len(s) >= max /\ Len(s) > 0 THEN SubSeq(s, 1, Len(s) - 1)
                ELSE s
    IN Append(kept, [k |-> k, v |-> v, age |-> 0])

\* the store after set(k, v)
lruSet(s, k, v, max) ==
    LET kept == IF lruHas(s, k) THEN lruRemove(s, k)
                ELSE IF Len(s) >= max /\ Len(s) > 0 THEN Tail(s)
                ELSE s
    IN Append(kept, [k |-> k, v |-> v, age |-> 0])

\* variant: a delete(k) that leaves the store as it is
lruDeleteNothing(s, k) == s

lruDelete(s, k) == lruRemove(s, k)

\* an age after d more ms: past the ttl it is stale for good; up to the ttl it
\* stops at `horizon`, the largest value it is compared with before that
older(age, d, horizon, ttl) ==
    IF age + d > ttl THEN ttl + 1 ELSE Min(age + d, horizon)

\* the store d ms later
lruOlder(s, d, horizon, ttl) ==
    [i \in 1..Len(s) |-> [s[i] EXCEPT !.age = older(s[i].age, d, horizon, ttl)]]

-----------------------------------------------------------------------------
(* HorizonService: pure helpers *)

\* variant: a delay without the cap
calculateDelayUncapped(attempt) == baseDelay * Pow2(attempt - 1)

\* Math.min(this.baseDelay * Math.pow(2, attempt - 1), this.maxDelay)
calculateDelay(attempt) == Min(baseDelay * Pow2(attempt - 1), maxDelay)

\* (ms / 1000).toFixed(3): the seconds and the thousandths the text names
secondsToWait(ms) == [whole |-> ms \div 1000, thousandths |-> ms % 1000]

\* variant: a hint that names the whole delay
waitHintWholeDelay(delay, timeSinceLastAttempt) == secondsToWait(delay)

\* the time to wait the Throttled error names: ((delay - timeSinceLastAttempt) / 1000).toFixed(3)
waitHint(delay, timeSinceLastAttempt) == secondsToWait(delay - timeSinceLastAttempt)

\* variant: a gate that never blocks
gateOpen(timeSinceLastAttempt, delay) == FALSE

\* variant: a gate that still blocks when the delay has just elapsed
gateInclusive(timeSinceLastAttempt, delay) == timeSinceLastAttempt <= delay

\* the gate's test: timeSinceLastAttempt < delay
backoffInEffect(timeSinceLastAttempt, delay) == timeSinceLastAttempt < delay

\* variant: an engine that gives up on a failure without a status
noStatusFinal(status) == status = NoStatus \/ status < 500

\* variant: an engine that retries every 4xx, 429 included
onlyBelow400(status) == status # NoStatus /\ status < 400

\* fetchFromHorizonWithRetry's catch: err.response?.status && err.response.status < 500
neverRetried(status) == status # NoStatus /\ status < 500

\* variant: an engine that gives up one attempt early
oneAttemptShort(attempt) == attempt = maxRetries - 1

\* variant: an engine that makes one attempt more
oneAttemptLate(attempt) == attempt = maxRetries + 1

\* fetchFromHorizonWithRetry's catch: attempt === this.maxRetries
lastAttemptOf(attempt) == attempt = maxRetries

\* variant: a catch block that records backoff for every failure
recordsAlways(status) == TRUE

\* variant: a catch block that records backoff for 5xx only
only5xx(status) == status # NoStatus /\ status >= 500

\* getPayments' catch: status === 429 || (typeof status === 'number' && status >= 500)
recordsBackoff(status) == status = 429 \/ (status # NoStatus /\ status >= 500)

\* variant: a getPayments that consults the gate before the cache
gateFirst(cached, blocked) ==
    IF blocked THEN "thr" ELSE IF cached # None THEN "hit" ELSE "admit"

\* the order of getPayments' checks: the cache (if (cached) return), then the gate
\* (if (timeSinceLastAttempt < delay) throw), else the call goes upstream
admission(cached, blocked) ==
    IF cached # None THEN "hit" ELSE IF blocked THEN "thr" ELSE "admit"

\* variant: a catch block that drops the key's cache entry
cacheDroppedOnFailure(s, k) == lruDelete(s, k)

\* this.cache after getPayments' catch block, which does not touch it
cacheAfterFailure(s, k) == s

\* variant: a service that caches every result
cachesAlways(wasInBackoff) == TRUE

\* variant: a service that caches no result
cachesNothing(wasInBackoff) == FALSE

\* getPayments: if (!wasInBackoff) this.cache.set(cacheKey, result)
cachesResult(wasInBackoff) == ~wasInBackoff

\* variant: a mapper that takes 500 for one of 502, 503, 504
handleAllUnavailable(status) ==
    IF status = NoStatus
      THEN [kind |-> "InternalError", http |-> INTERNAL_SERVER_ERROR]
    ELSE IF status = 429
      THEN [kind |-> "RateLimited", http |-> SERVICE_UNAVAILABLE]
    ELSE IF status \in {500, 502, 503, 504}
      THEN [kind |-> "UpstreamUnavailable", http |-> SERVICE_UNAVAILABLE]
    ELSE [kind |-> "InvalidRequest", http |-> BAD_REQUEST]

\* the HttpException handleHorizonError throws for the final upstream failure
handleHorizonError(status) ==
    IF status = NoStatus
      THEN [kind |-> "InternalError", http |-> INTERNAL_SERVER_ERROR]
    ELSE IF status = 429
      THEN [kind |-> "RateLimited", http |-> SERVICE_UNAVAILABLE]
    ELSE IF status \in {502, 503, 504}
      THEN [kind |-> "UpstreamUnavailable", http |-> SERVICE_UNAVAILABLE]
    ELSE IF status = 500
      THEN [kind |-> "UpstreamInternalError", http |-> BAD_GATEWAY]
    ELSE [kind |-> "InvalidRequest", http |-> BAD_REQUEST]

\* variant: an updateBackoff without the cap
updateBackoffUncapped(b, k) ==
    LET existing == lruGet(b, k, backoffTtl)
        attempts == IF existing # None THEN existing[1].attempts + 1 ELSE 1
    IN lruSet(lruAfterGet(b, k, backoffTtl, FALSE), k, [attempts |-> attempts], backoffMax)

\* variant: an updateBackoff that records the cap at once
updateBackoffFull(b, k) ==
    lruSet(lruAfterGet(b, k, backoffTtl, FALSE), k, [attempts |-> maxRetries], backoffMax)

\* the backoff store after updateBackoff(cacheKey); the entry's lastAttempt and the
\* entry's own start are stamped by the same set(), so its age is the time since
\* lastAttempt
updateBackoff(b, k) ==
    LET existing == lruGet(b, k, backoffTtl)
        attempts == IF existing # None THEN Min(existing[1].attempts + 1, maxRetries) ELSE 1
    IN lruSet(lruAfterGet(b, k, backoffTtl, FALSE), k, [attempts |-> attempts], backoffMax)

\* classes of upstream failure
classOf(status) ==
    IF status = NoStatus THEN "transport"
    ELSE IF status = 429 THEN "429"
    ELSE IF status >= 500 THEN "5xx"
    ELSE "4xx"

-----------------------------------------------------------------------------
(* State *)

\* a free call slot
IdleCall ==
    [pc |-> "idle", q |-> Q1, wasInBackoff |-> FALSE, attempt |-> 0,
     left |-> 0]         \* time left until the pending sleep is due

\* what a step of a call did: "hit", "thr" (Throttled) and "admit" (first upstream
\* call made) are the three ways getPayments starts; "ok" and the class of the
\* final upstream failure are the two ways an admitted call ends; "retry" is a
\* rejected attempt after which the engine sleeps and tries again; "clear" is a
\* clearCache()
NoLast ==
    [cls |-> "none", k |-> "",
     q |-> Q1,           \* the query of a call that ended with a fetched result
     raw |-> <<>>,       \* and the raw records of the page it fetched
     up |-> "",          \* class of the upstream rejection the step handled, if any
     status |-> 0,       \* its status, when the rejection ended the call
     kind |-> "", res |-> None,    \* what the caller gets: an error kind or a result
     http |-> 0,         \* the status of the HttpException thrown, 0 if none was
     wait |-> 0,         \* the wait hint (ms) of a Throttled rejection
     hint |-> [whole |-> 0, thousandths |-> 0],     \* as its text names it, in seconds
     recov |-> FALSE,    \* wasInBackoff
     ups |-> 0,          \* upstream calls (query.call()) the call made
     solo |-> TRUE,      \* no other call for the same key was in flight during it
     ev |-> {},          \* keys of the cache entries evicted by the cache.set of the step
     had |-> None,       \* what the cache held for the key when the upstream call resolved
     cool |-> {},        \* keys whose cool-down a clearCache() ended (ev: keys it uncached)
     att |-> 0]          \* attempts of the BackoffEntry it recorded, 0 if it recorded none

\* the last completed call for a key: "none", "hit", "ok", "thr" or "fail"
NoPrev ==
    [cls |-> "none", res |-> None, recov |-> FALSE, ups |-> 0, att |-> 0,
     age |-> 0]          \* time since a "hit" or "ok" call ended

NoThr ==
    [on |-> FALSE,
     left |-> 0,         \* what is left of the wait hint of the rejection
     dirty |-> FALSE]    \* a failure was recorded for the key since

Init ==
    /\ cache = <<>>
    /\ backoffCache = <<>>
    /\ calls = [c \in Calls |-> IdleCall]
    /\ last = NoLast
    /\ prev = [k \in Keys |-> NoPrev]
    /\ thr = [k \in Keys |-> NoThr]
    /\ overlap = [k \in Keys |-> FALSE]

inFlight(c) == calls[c].pc \in {"calling", "sleeping"}

\* the calls in flight for key k
flying(k) == {c \in Calls : inFlight(c) /\ cacheKey(calls[c].q) = k}

\* slots are interchangeable: a new call takes the first free one
firstFree(c) == calls[c].pc = "idle" /\ \A d \in Calls : d < c => calls[d].pc # "idle"

\* the largest delay the gate ever requires
maxGate == calculateDelay(maxRetries)

\* prev after a call for k ended as `l`
prevOf(l) ==
    [cls |-> IF l.cls \in {"hit", "ok", "thr"} THEN l.cls ELSE "fail",
     res |-> l.res, recov |-> l.recov,
     ups |-> IF l.cls = "ok" THEN l.ups ELSE 0,
     att |-> l.att, age |-> 0]

\* overlap after a call for k ended
overlapAfter(k, c) == IF flying(k) \ {c} = {} THEN FALSE ELSE overlap[k]

-----------------------------------------------------------------------------
(* getPayments, from its entry to the first await (lines 45-87, 116-127):   *)
(* cache hit, Throttled rejection, or admission and the first upstream call *)

getPayments(c, q) ==
    /\ firstFree(c)
    /\ LET k == cacheKey(q)
           cached == lruGet(cache, k, CacheTtlMs)
           cache1 == lruAfterGet(cache, k, CacheTtlMs, TRUE)
           backoffInfo == lruGet(backoffCache, k, backoffTtl)
           backoff1 == lruAfterGet(backoffCache, k, backoffTtl, FALSE)
           timeSinceLastAttempt == lruEntry(backoffCache, k).age
           delay == calculateDelay(backoffInfo[1].attempts)
           blocked == backoffInfo # None /\ backoffInEffect(timeSinceLastAttempt, delay)
           way == admission(cached, blocked)
       IN /\ cache' = cache1
          /\ IF way = "hit"
               THEN LET l == [NoLast EXCEPT !.cls = "hit", !.k = k, !.kind = "Hit",
                                            !.res = cached]
                    IN /\ last' = l
                       /\ prev' = [prev EXCEPT ![k] = prevOf(l)]
                       /\ UNCHANGED <<calls, backoffCache, thr, overlap>>
             ELSE IF way = "thr"
               THEN LET l == [NoLast EXCEPT !.cls = "thr", !.k = k, !.kind = "Throttled",
                                            !.http = SERVICE_UNAVAILABLE,
                                            !.wait = delay - timeSinceLastAttempt,
                                            !.hint = waitHint(delay, timeSinceLastAttempt)]
                    IN /\ last' = l
                       /\ backoffCache' = backoff1
                       /\ prev' = [prev EXCEPT ![k] = prevOf(l)]
                       /\ thr' = [thr EXCEPT ![k] = [on |-> TRUE, dirty |-> FALSE,
                                                     left |-> l.wait]]
                       /\ UNCHANGED <<calls, overlap>>
             ELSE /\ calls' = [calls EXCEPT ![c] =
                                 [IdleCall EXCEPT !.pc = "calling", !.q = q,
                                                  !.wasInBackoff = (backoffInfo # None),
                                                  !.attempt = 1]]
                  /\ backoffCache' = IF backoffInfo # None THEN lruDelete(backoff1, k)
                                     ELSE backoff1
                  /\ last' = [NoLast EXCEPT !.cls = "admit", !.k = k, !.ups = 1,
                                            !.recov = (backoffInfo # None)]
                  /\ overlap' = [overlap EXCEPT ![k] = flying(k) # {}]
                  /\ UNCHANGED <<prev, thr>>

(* The upstream call of the current attempt resolves with a page: the page  *)
(* is normalised, the result cached unless the call began in backoff, and   *)
(* returned (lines 127-175, 87-96)                                          *)
upstreamResolves(c, page) ==
    /\ calls[c].pc = "calling"
    /\ LET call == calls[c]
           k == cacheKey(call.q)
           result == normalize(page, call.q.asset)
           evicted == IF cachesResult(call.wasInBackoff)
                        THEN lruEvicted(cache, k, CacheMaxItems) ELSE {}
           l == [NoLast EXCEPT !.cls = "ok", !.k = k, !.kind = "Ok",
                               !.q = call.q, !.raw = page,
                               !.res = Some(result), !.recov = call.wasInBackoff,
                               !.ups = call.attempt, !.solo = ~overlap[k],
                               !.ev = evicted, !.had = lruGet(cache, k, CacheTtlMs)]
       IN /\ cache' = IF cachesResult(call.wasInBackoff)
                        THEN lruSet(cache, k, result, CacheMaxItems)
                        ELSE cache
          /\ last' = l
          /\ prev' = [x \in Keys |-> IF x = k THEN prevOf(l)
                                     ELSE IF x \in evicted THEN NoPrev ELSE prev[x]]
          /\ overlap' = [overlap EXCEPT ![k] = overlapAfter(k, c)]
    /\ calls' = [calls EXCEPT ![c] = IdleCall]
    /\ UNCHANGED <<backoffCache, thr>>

(* The upstream call of the current attempt rejects with `status`: either   *)
(* the engine sleeps before the next attempt, or the error reaches          *)
(* getPayments' catch block, which records backoff and throws the mapped    *)
(* HttpException (lines 176-194, 97-103)                                    *)
upstreamRejects(c, status) ==
    /\ calls[c].pc = "calling"
    /\ LET call == calls[c]
           k == cacheKey(call.q)
       IN IF neverRetried(status) \/ lastAttemptOf(call.attempt)
            THEN LET e == handleHorizonError(status)
                     backoff1 == IF recordsBackoff(status)
                                   THEN updateBackoff(backoffCache, k)
                                   ELSE backoffCache
                     l == [NoLast EXCEPT !.cls = classOf(status), !.k = k,
                                !.up = classOf(status), !.status = status,
                                !.kind = e.kind,
                                !.http = e.http, !.recov = call.wasInBackoff,
                                !.ups = call.attempt, !.solo = ~overlap[k],
                                !.att = IF recordsBackoff(status)
                                          THEN lruEntry(backoff1, k).v.attempts ELSE 0]
                 IN /\ calls' = [calls EXCEPT ![c] = IdleCall]
                    /\ backoffCache' = backoff1
                    /\ last' = l
                    /\ prev' = [prev EXCEPT ![k] = prevOf(l)]
                    /\ thr' = IF recordsBackoff(status)
                                THEN [thr EXCEPT ![k].dirty = thr[k].on] ELSE thr
                    /\ overlap' = [overlap EXCEPT ![k] = overlapAfter(k, c)]
                    /\ cache' = cacheAfterFailure(cache, k)
          ELSE /\ calls' = [calls EXCEPT ![c] =
                              [call EXCEPT !.pc = "sleeping",
                                           !.left = calculateDelay(call.attempt)]]
               /\ last' = [NoLast EXCEPT !.cls = "retry", !.k = k, !.up = classOf(status),
                                         !.recov = call.wasInBackoff,
                                         !.ups = call.attempt, !.solo = ~overlap[k]]
               /\ UNCHANGED <<cache, backoffCache, prev, thr, overlap>>

(* The retry sleep ends (setTimeout fires no earlier than its delay) and    *)
(* the loop makes the next upstream call (lines 193, 116-127)               *)
sleepEnds(c) ==
    /\ calls[c].pc = "sleeping"
    /\ calls[c].left = 0
    /\ calls' = [calls EXCEPT ![c] = [@ EXCEPT !.pc = "calling", !.attempt = @ + 1]]
    /\ last' = NoLast
    /\ UNCHANGED <<cache, backoffCache, prev, thr, overlap>>

\* what getCacheStats() returns for the stores c (cache) and b (backoffCache)
getCacheStats(c, b) ==
    [entries |-> Len(c), maxEntries |-> CacheMaxItems, ttl |-> CacheTtlMs,
     backoffEntries |-> Len(b)]

\* the keys with a live cache entry, and those with a backoff entry in its cool-down
cachedKeys == {k \in Keys : lruGet(cache, k, CacheTtlMs) # None}
coolingKeys ==
    {k \in Keys : /\ lruGet(backoffCache, k, backoffTtl) # None
                  /\ backoffInEffect(lruEntry(backoffCache, k).age,
                                     calculateDelay(lruEntry(backoffCache, k).v.attempts))}

\* variant: a clearCache() that forgets the backoff store
clearCacheOnly ==
    /\ cache' = <<>>
    /\ backoffCache' = backoffCache
    /\ last' = [NoLast EXCEPT !.cls = "clear", !.ev = cachedKeys, !.cool = coolingKeys]
    /\ prev' = [k \in Keys |-> NoPrev]
    /\ thr' = [k \in Keys |-> NoThr]
    /\ UNCHANGED <<calls, overlap>>

(* clearCache(): both stores are emptied (lines 270-274) *)
clearCache ==
    /\ cache' = <<>>
    /\ backoffCache' = <<>>
    /\ last' = [NoLast EXCEPT !.cls = "clear", !.ev = cachedKeys, !.cool = coolingKeys]
    /\ prev' = [k \in Keys |-> NoPrev]
    /\ thr' = [k \in Keys |-> NoThr]
    /\ UNCHANGED <<calls, overlap>>

(* d ms pass *)
Tick(d) ==
    /\ cache' = lruOlder(cache, d, CacheTtlMs, CacheTtlMs)
    /\ backoffCache' = lruOlder(backoffCache, d, maxGate, backoffTtl)
    /\ calls' = [c \in Calls |-> [calls[c] EXCEPT !.left = Max(@ - d, 0)]]
    /\ last' = NoLast
    /\ prev' = [k \in Keys |->
                  IF prev[k].cls \in {"hit", "ok"}
                    THEN [prev[k] EXCEPT !.age = older(@, d, CacheTtlMs, CacheTtlMs)]
                    ELSE prev[k]]
    /\ thr' = [k \in Keys |-> [thr[k] EXCEPT !.left = Max(@ - d, 0)]]
    /\ UNCHANGED overlap

Next ==
    \/ \E c \in Calls, q \in Queries : getPayments(c, q)
    \/ \E c \in Calls, page \in Pages : upstreamResolves(c, page)
    \/ \E c \in Calls, status \in Statuses : upstreamRejects(c, status)
    \/ \E c \in Calls : sleepEnds(c)
    \/ clearCache
    \/ \E d \in TickSteps : Tick(d)

Spec == Init /\ [][Next]_vars

(* A moment of a busy service: calls for one key were admitted together    *)
(* while the key had no backoff entry, all but one of them have already    *)
(* failed with 429, one after the other within the same millisecond (each  *)
(* updateBackoff found the entry of the one before), and the last one is   *)
(* still waiting for its first upstream answer.                            *)
Busy(a) ==
    LET k == cacheKey(Q1)
    IN /\ cache = <<>>
       /\ backoffCache = <<[k |-> k, v |-> [attempts |-> a], age |-> 0]>>
       /\ calls = [c \in Calls |->
                     IF c = 1 THEN [IdleCall EXCEPT !.pc = "calling", !.q = Q1, !.attempt = 1]
                     ELSE IdleCall]
       /\ last = NoLast
       /\ prev = [x \in Keys |->
                    IF x = k THEN [NoPrev EXCEPT !.cls = "fail", !.att = a] ELSE NoPrev]
       /\ thr = [x \in Keys |-> NoThr]
       /\ overlap = [x \in Keys |-> x = k]

InitBusy == Init \/ \E a \in 1..maxRetries : Busy(a)

SpecBusy == InitBusy /\ [][Next]_vars

(* Calls for one key, overlapping or not, against an upstream that answers   *)
(* each request with a page or with one rejection of each class.            *)
RetryStatuses == {400, 429, 503, NoStatus}

\* the upstream call of the call in slot c completes, either way
settles(c) ==
    \/ upstreamResolves(c, <<RecNative, RecCreate>>)
    \/ \E status \in RetryStatuses : upstreamRejects(c, status)

NextRetry ==
    \/ \E c \in Calls : getPayments(c, Q1)
    \/ \E c \in Calls : settles(c)
    \/ \E c \in Calls : sleepEnds(c)
    \/ \E d \in TickSteps : Tick(d)

\* every upstream call completes, every sleep completes (its timer fires once
\* its delay has passed, and time passes)
SpecFair ==
    /\ Init
    /\ [][NextRetry]_vars
    /\ \A c \in Calls : WF_vars(settles(c)) /\ WF_vars(sleepEnds(c))
    /\ WF_vars(Tick(baseDelay))

(* One caller that issues different queries, each after the one before has  *)
(* returned, against an upstream that answers every request.               *)
NextKeys ==
    \/ \E c \in Calls, q \in ManyQueries :
          (\A d \in Calls : ~inFlight(d)) /\ getPayments(c, q)
    \/ \E c \in Calls, page \in Pages : upstreamResolves(c, page)
    \/ clearCache
    \/ \E d \in TickSteps : Tick(d)

SpecKeys == Init /\ [][NextKeys]_vars

(* One caller that queries with different asset filters, each time with an  *)
(* empty cache (after start-up or clearCache), against an upstream that     *)
(* answers with any page.                                                   *)
NextPages ==
    \/ \E c \in Calls, q \in FilterQueries :
          cache = <<>> /\ (\A d \in Calls : ~inFlight(d)) /\ getPayments(c, q)
    \/ \E c \in Calls, page \in AllPages : upstreamResolves(c, page)
    \/ clearCache

SpecPages == Init /\ [][NextPages]_vars

(* A moment of a busy service: the backoff store is full. A call for Q1 has  *)
(* just failed with 429 and, within the same millisecond, so have calls for  *)
(* backoffMax - 1 other accounts, each recorded after it. From there one     *)
(* caller issues queries for Q1 and Q2, each after the one before has        *)
(* returned, and the upstream answers every request with 429.               *)
OtherQuery(i) == [Q1 EXCEPT !.accountId = "GOTHER" \o ToString(i)]

Full ==
    /\ cache = <<>>
    /\ backoffCache =
         [i \in 1..backoffMax |->
            [k |-> IF i = 1 THEN cacheKey(Q1) ELSE cacheKey(OtherQuery(i)),
             v |-> [attempts |-> 1], age |-> 0]]
    /\ calls = [c \in Calls |-> IdleCall]
    /\ last = NoLast
    /\ prev = [x \in Keys |->
                 IF x = cacheKey(Q1) THEN [NoPrev EXCEPT !.cls = "fail", !.att = 1]
                 ELSE NoPrev]
    /\ thr = [x \in Keys |-> NoThr]
    /\ overlap = [x \in Keys |-> FALSE]

NextFull ==
    \/ \E c \in Calls, q \in {Q1, Q2} :
          (\A d \in Calls : ~inFlight(d)) /\ getPayments(c, q)
    \/ \E c \in Calls : upstreamRejects(c, 429)
    \/ Tick(baseDelay)

SpecFull == Full /\ [][NextFull]_vars

(* The point from which the upstream always succeeds: the last of the calls  *)
(* for Q1 has just failed and left a backoff entry with attempts = a. From   *)
(* there one caller keeps re-issuing Q1, each call after the one before has  *)
(* returned, while time passes.                                              *)
Blocked(a) ==
    LET k == cacheKey(Q1)
    IN /\ cache = <<>>
       /\ backoffCache = <<[k |-> k, v |-> [attempts |-> a], age |-> 0]>>
       /\ calls = [c \in Calls |-> IdleCall]
       /\ last = NoLast
       /\ prev = [x \in Keys |->
                    IF x = k THEN [NoPrev EXCEPT !.cls = "fail", !.att = a] ELSE NoPrev]
       /\ thr = [x \in Keys |-> NoThr]
       /\ overlap = [x \in Keys |-> FALSE]

InitLive == \E a \in 1..maxRetries : Blocked(a)

reissue == \E c \in Calls : (\A d \in Calls : ~inFlight(d)) /\ getPayments(c, Q1)

\* the caller re-issues the query while the cache holds a live entry for it
reissueInTime == lruGet(cache, cacheKey(Q1), CacheTtlMs) # None /\ reissue

answered == \E c \in Calls, page \in Pages : upstreamResolves(c, page)

NextLive ==
    \/ reissue
    \/ answered
    \/ \E d \in TickSteps : Tick(d)

\* the caller keeps calling, and again and again does so before a cached result
\* has expired; every upstream call is answered; time advances
SpecLive ==
    /\ InitLive
    /\ [][NextLive]_vars
    /\ WF_vars(reissue)
    /\ SF_vars(reissueInTime)
    /\ WF_vars(answered)
    /\ WF_vars(Tick(baseDelay))

-----------------------------------------------------------------------------
(* Properties *)

\* the step is the entry of a getPayments call for key k
starts(k) == last'.cls \in {"hit", "thr", "admit"} /\ last'.k = k

\* the step ends, with a recorded upstream failure, the call in slot c
failsRecorded(c) ==
    /\ calls[c].pc = "calling"
    /\ calls'[c].pc = "idle"
    /\ last'.cls \in {"429", "5xx"}

\* the entries the backoff store holds for key k
entriesOf(b, k) == {i \in 1..Len(b) : b[i].k = k}

\* C1 (as stated): a call that follows, within the cache TTL, a call for the same
\* key that returned a result after one upstream call, with no call for the key
\* ending in between, is a cache hit with the same result and no upstream call.
C1_AsStated ==
    [][\A k \in Keys :
         (starts(k) /\ prev[k].cls = "ok" /\ prev[k].ups = 1 /\ prev[k].age <= CacheTtlMs)
           => /\ last'.cls = "hit"
              /\ last'.res = prev[k].res
              /\ last'.ups = 0]_vars

\* C1 (amended): if the last call that ended for a key returned a result, and was
\* not admitted while the key had a live backoff entry, then an identical call
\* issued within the cache TTL (no clearCache, no eviction of the key in between)
\* is served from the cache: it returns the same result and makes no upstream
\* call, so the two calls together made the upstream calls of the first one.
C1_Idempotent ==
    [][\A k \in Keys :
         (starts(k) /\ prev[k].cls \in {"hit", "ok"} /\ ~prev[k].recov
            /\ prev[k].age <= CacheTtlMs)
           => /\ last'.cls = "hit"
              /\ last'.res = prev[k].res
              /\ last'.ups = 0
              /\ prev[k].ups + last'.ups = prev[k].ups
              /\ calls' = calls]_vars

\* C1: a second call has just been served from the live cache entry
C1_Served ==
    /\ last.cls = "hit"
    /\ last.res # None
    /\ lruGet(cache, last.k, CacheTtlMs) = last.res

\* C2: a getPayments call that misses the cache while the key's backoff entry is
\* in its cool-down (time since lastAttempt < min(baseDelay * 2^(attempts-1),
\* maxDelay)) throws Throttled (503) and makes no upstream call.
C2_GateThrottles ==
    [][\A k \in Keys :
         (/\ starts(k)
          /\ lruGet(cache, k, CacheTtlMs) = None
          /\ lruGet(backoffCache, k, backoffTtl) # None
          /\ lruEntry(backoffCache, k).age
               < Min(baseDelay * Pow2(lruEntry(backoffCache, k).v.attempts - 1), maxDelay))
           => /\ last'.cls = "thr"
              /\ last'.kind = "Throttled"
              /\ last'.http = SERVICE_UNAVAILABLE
              /\ last'.ups = 0
              /\ calls' = calls]_vars

\* C2: a call has just been rejected by the gate
C2_Rejected ==
    /\ last.cls = "thr"
    /\ last.wait > 0
    /\ lruGet(backoffCache, last.k, backoffTtl) # None

\* C3 (as stated): after a Throttled rejection for a key, the same query issued
\* before the wait hint has elapsed is rejected again without an upstream call,
\* and issued once it has elapsed, no failure having been recorded for the key
\* since, is admitted and makes an upstream call.
C3_AsStated ==
    [][\A k \in Keys :
         (starts(k) /\ thr[k].on)
           => /\ thr[k].left > 0 => (last'.cls = "thr" /\ last'.ups = 0)
              /\ (thr[k].left = 0 /\ ~thr[k].dirty)
                   => (last'.cls = "admit" /\ last'.ups = 1)]_vars

\* C3 (amended): the same, for a re-issued query that misses the cache (a call
\* that was in flight at the rejection may have cached a result since), no
\* clearCache having run since the rejection.
C3_RetryAfter ==
    [][\A k \in Keys :
         (starts(k) /\ thr[k].on /\ lruGet(cache, k, CacheTtlMs) = None)
           => /\ thr[k].left > 0 => (last'.cls = "thr" /\ last'.ups = 0 /\ calls' = calls)
              /\ (thr[k].left = 0 /\ ~thr[k].dirty)
                   => (last'.cls = "admit" /\ last'.ups = 1)]_vars

\* C3: a query rejected earlier has just been admitted, its wait over
C3_Readmitted ==
    \E k \in Keys :
        /\ last.cls = "admit" /\ last.k = k
        /\ thr[k].on /\ thr[k].left = 0 /\ ~thr[k].dirty

\* C4 (as stated): a call that ends with an upstream 4xx other than 429 has made
\* exactly one upstream call and leaves the backoff store as it was, and the
\* identical call that follows at once (the failed call having been the only
\* one in flight for the key) is admitted and makes an upstream call.
C4_AsStated ==
    [][/\ last'.cls = "4xx" => (last'.ups = 1 /\ backoffCache' = backoffCache)
       /\ (last.cls = "4xx" /\ last.solo /\ starts(last.k))
            => (last'.cls = "admit" /\ last'.ups = 1)]_vars

\* C4 (amended): an upstream rejection with a 4xx status other than 429 is never
\* retried: it ends the call (after one upstream call when it answers the first
\* attempt) with the 400 InvalidRequest error and leaves the backoff store as it
\* was; the identical call that follows at once, no other call for the key
\* having been in flight during the failed one, is admitted and makes an
\* upstream call.
C4_ClientErrorFinal ==
    [][/\ last'.cls = "retry" => last'.up # "4xx"
       /\ last'.cls = "4xx"
            => /\ last'.http = BAD_REQUEST /\ last'.kind = "InvalidRequest"
               /\ last'.att = 0
               /\ backoffCache' = backoffCache
               /\ \A c \in Calls :
                    (calls[c].pc = "calling" /\ calls[c].attempt = 1 /\ calls'[c].pc = "idle")
                      => last'.ups = 1
       /\ (last.cls = "4xx" /\ last.solo /\ starts(last.k))
            => (last'.cls = "admit" /\ last'.ups = 1)]_vars

\* C4: a call has just failed with a 4xx on its only upstream call
C4_Failed400 ==
    /\ last.cls = "4xx"
    /\ last.ups = 1
    /\ last.solo

\* C5: no call makes more than maxRetries upstream calls, and a call whose last
\* upstream failure is a 5xx has made exactly maxRetries of them and throws a
\* mapped HttpException.
C5_BoundedRetries ==
    /\ \A c \in Calls : calls[c].attempt <= maxRetries
    /\ last.ups <= maxRetries
    /\ last.cls = "retry" => last.ups < maxRetries
    /\ last.cls = "5xx"
         => /\ last.ups = maxRetries
            /\ last.kind \in {"UpstreamUnavailable", "UpstreamInternalError", "InvalidRequest"}
            /\ last.http \in {SERVICE_UNAVAILABLE, BAD_GATEWAY, BAD_REQUEST}

\* C5: a call has just failed with a 5xx after maxRetries upstream calls
C5_Exhausted ==
    /\ last.cls = "5xx"
    /\ last.ups = maxRetries

\* C6 (as stated): a call that ends with the upstream's 429 has made maxRetries
\* upstream calls.
C6_AsStated ==
    last.cls = "429" => last.ups = maxRetries

C8_AsStated ==
    last.cls \in {"429", "5xx"}
      => /\ Cardinality(entriesOf(backoffCache, last.k)) = 1
         /\ lruEntry(backoffCache, last.k).v.attempts = maxRetries

\* C8 (amended): after a call fails with 429 or 5xx, the key has exactly one
\* backoff entry, stamped now; its attempts are 1 if the key had no live entry
\* when the call failed, and otherwise one more than that entry's, capped at
\* maxRetries.
C8_AttemptsRecorded ==
    [][\A k \in Keys :
         (last'.cls \in {"429", "5xx"} /\ last'.k = k)
           => /\ Cardinality(entriesOf(backoffCache', k)) = 1
              /\ lruEntry(backoffCache', k).age = 0
              /\ lruEntry(backoffCache', k).v.attempts =
                   IF lruGet(backoffCache, k, backoffTtl) = None THEN 1
                   ELSE Min(lruEntry(backoffCache, k).v.attempts + 1, maxRetries)
              /\ last'.att = lruEntry(backoffCache', k).v.attempts]_vars

\* C8: a failure has just been recorded on top of an entry already at the cap
C8_Capped ==
    /\ last.cls \in {"429", "5xx"}
    /\ last.att = maxRetries
    /\ lruEntry(backoffCache, last.k).v.attempts = maxRetries

\* C9 (as stated): when the last call that ended for a key failed and recorded
\* attempts = a, and the next call for the key, admitted while that entry is
\* live and alone in flight, fails too, the entry then records min(a + 1,
\* maxRetries).
C9_AsStated ==
    [][\A c \in Calls :
         (/\ failsRecorded(c)
          /\ calls[c].wasInBackoff
          /\ ~overlap[cacheKey(calls[c].q)]
          /\ prev[cacheKey(calls[c].q)].cls = "fail"
          /\ prev[cacheKey(calls[c].q)].att >= 1)
           => last'.att = Min(prev[cacheKey(calls[c].q)].att + 1, maxRetries)]_vars

\* C10 (as stated): when a call has returned the result of a successful upstream
\* fetch, the key has no backoff entry.
C10_AsStated ==
    last.cls = "ok" => ~lruHas(backoffCache, last.k)

\* the classes of a call's end in an upstream failure
Failures == {"4xx", "429", "5xx", "transport"}

\* the live entries of the cache, least recently used first
liveOf(s) == SelectSeq(s, LAMBDA e : ~lruStale(e, CacheTtlMs))

\* the caller-facing status the error table gives an upstream status; 0 where
\* the table has no row (a 5xx other than 500, 502, 503, 504)
statusTable(status) ==
    IF status = NoStatus THEN 500
    ELSE IF status = 429 THEN 503
    ELSE IF status = 500 THEN 502
    ELSE IF status \in {502, 503, 504} THEN 503
    ELSE IF status \in 400..499 THEN 400
    ELSE 0

\* C11 (as stated): a call that is admitted while the key has a live backoff
\* entry (its cool-down over) leaves that entry in place.
C11_AsStated ==
    [][\A k \in Keys :
         (starts(k) /\ last'.cls = "admit" /\ lruGet(backoffCache, k, backoffTtl) # None)
           => lruGet(backoffCache', k, backoffTtl) = lruGet(backoffCache, k, backoffTtl)]_vars

\* C12: every backoff entry has attempts in 1..maxRetries, and as long as a
\* key's live entry is not removed (by an admission, clearCache or expiry) its
\* attempts never decrease.
C12_AttemptsBounded ==
    [][/\ \A i \in 1..Len(backoffCache) : backoffCache[i].v.attempts \in 1..maxRetries
       /\ \A i \in 1..Len(backoffCache') : backoffCache'[i].v.attempts \in 1..maxRetries
       /\ \A k \in Keys :
            (lruGet(backoffCache, k, backoffTtl) # None /\ lruHas(backoffCache', k))
              => lruEntry(backoffCache', k).v.attempts
                   >= lruEntry(backoffCache, k).v.attempts]_vars

\* C12: a second failure has just raised a live entry's attempts to 2
C12_Raised ==
    /\ last.cls \in {"429", "5xx"}
    /\ last.att = 2
    /\ lruGet(backoffCache, last.k, backoffTtl) = Some([attempts |-> 2])

\* C13: no step of a call that ends in an error (its entry on a cache miss, a
\* Throttled rejection, a retried attempt, the final failure) changes the live
\* entries of the cache: their keys, values, ages and order stay as they were.
C13_FailureLeavesCache ==
    [][last'.cls \in {"admit", "thr", "retry"} \cup Failures
         => liveOf(cache') = liveOf(cache)]_vars

\* C13: a call has just failed while the cache holds a live entry for its key,
\* written by a call that was in flight with it
C13_FailedBesideEntry ==
    /\ last.cls \in Failures
    /\ lruGet(cache, last.k, CacheTtlMs) # None

\* C14: a call that ends in an upstream failure throws the status the error
\* table gives for the status of that failure.
C14_ErrorTable ==
    (last.cls \in Failures /\ statusTable(last.status) # 0)
      => last.http = statusTable(last.status)

\* C14: a call has just ended on an upstream 500 and thrown 502
C14_Mapped500 ==
    /\ last.cls = "5xx"
    /\ last.status = 500
    /\ last.http = BAD_GATEWAY

\* C15 (as stated): a call that throws InvalidRequest ended on an upstream
\* status outside the retried categories (a 4xx other than 429) and recorded
\* no backoff entry.
C15_AsStated ==
    last.kind = "InvalidRequest"
      => /\ last.status \in 400..499
         /\ last.status # 429
         /\ last.att = 0

\* C16: a call that ends on an upstream failure without a status has made
\* maxRetries upstream calls and throws the 500 InternalError; an attempt that
\* fails that way before the last is retried.
C16_TransportRetried ==
    /\ last.cls = "transport"
         => /\ last.ups = maxRetries
            /\ last.kind = "InternalError"
            /\ last.http = INTERNAL_SERVER_ERROR
    /\ (last.cls = "retry" /\ last.up = "transport") => last.ups < maxRetries

\* C16: a call has just ended on its third failure without a status
C16_Exhausted ==
    /\ last.cls = "transport"
    /\ last.ups = maxRetries
    /\ last.status = NoStatus

\* C17 (as stated): after a call has failed with its retry budget exhausted,
\* whatever the failure, the key has a live backoff entry.
C17_AsStated ==
    (last.cls \in {"429", "5xx", "transport"} /\ last.ups = maxRetries)
      => lruGet(backoffCache, last.k, backoffTtl) # None

\* C17 (amended): a call that ends on a 5xx or a 429 records a backoff entry,
\* stamped now, before it throws, so the identical call that follows at once is
\* Throttled; a call that ends on a failure without a status leaves the backoff
\* store as it was, so the identical call that follows at once is admitted (in
\* both cases no other call for the key having been in flight).
C17_BackoffRecorded ==
    [][/\ last'.cls \in {"429", "5xx"}
            => /\ lruGet(backoffCache', last'.k, backoffTtl) # None
               /\ lruEntry(backoffCache', last'.k).age = 0
       /\ last'.cls = "transport" => backoffCache' = backoffCache
       /\ (last.cls \in {"429", "5xx"} /\ last.solo /\ starts(last.k))
            => (last'.cls = "thr" /\ last'.ups = 0)
       /\ (last.cls = "transport" /\ last.solo /\ starts(last.k))
            => (last'.cls = "admit" /\ last'.ups = 1)]_vars

\* C17: a call has just ended on its third 5xx and recorded the entry
C17_Recorded5xx ==
    /\ last.cls = "5xx"
    /\ last.ups = maxRetries
    /\ last.att >= 1
    /\ lruEntry(backoffCache, last.k).age = 0

\* C18: a successful call that found a live backoff entry at its admission
\* leaves the cache as it was, and the identical call that follows at once (no
\* other call for the key having been in flight) is admitted and goes upstream;
\* a successful call that found none caches its result.
C18_RecoveryNotCached ==
    [][/\ (last'.cls = "ok" /\ last'.recov) => cache' = cache
       /\ (last'.cls = "ok" /\ ~last'.recov)
            => /\ lruGet(cache', last'.k, CacheTtlMs) = last'.res
               /\ lruEntry(cache', last'.k).age = 0
       /\ (last.cls = "ok" /\ last.recov /\ last.solo /\ starts(last.k))
            => (last'.cls = "admit" /\ last'.ups = 1)]_vars

\* C18: a call admitted after a cool-down has just succeeded, and the cache has
\* nothing for its key
C18_Recovered ==
    /\ last.cls = "ok"
    /\ last.recov
    /\ lruGet(cache, last.k, CacheTtlMs) = None

\* C19: a getPayments call for a key with a live cache entry returns that entry
\* and throws nothing, whatever the backoff store holds, and leaves the backoff
\* store as it was.
C19_CacheBeforeGate ==
    [][\A k \in Keys :
         (starts(k) /\ lruGet(cache, k, CacheTtlMs) # None)
           => /\ last'.cls = "hit"
              /\ last'.res = lruGet(cache, k, CacheTtlMs)
              /\ last'.http = 0
              /\ backoffCache' = backoffCache]_vars

\* C19: a call has just been served from the cache while the key's backoff
\* entry is in its cool-down
C19_HitInCooldown ==
    /\ last.cls = "hit"
    /\ lruGet(backoffCache, last.k, backoffTtl) # None
    /\ lruEntry(backoffCache, last.k).age
         < calculateDelay(lruEntry(backoffCache, last.k).v.attempts)

\* C20 (as stated): a call served from the cache gets a result computed for its
\* own query: the normalised form, under its own asset filter, of some page.
C20_AsStated ==
    [][\A q \in ManyQueries :
         (starts(cacheKey(q)) /\ last'.cls = "hit")
           => \E page \in Pages : last'.res = Some(normalize(page, q.asset))]_vars

\* the cache holds an entry for key k whose age is within the TTL
servable(k) == \E i \in 1..Len(cache) : cache[i].k = k /\ cache[i].age <= CacheTtlMs

\* the cache holds an entry for key k whose age is past the TTL
expired(k) == \E i \in 1..Len(cache) : cache[i].k = k /\ cache[i].age > CacheTtlMs

\* the backoff store holds a live entry for key k that is in its cool-down
cooling(k) ==
    \E i \in 1..Len(backoffCache) :
        /\ backoffCache[i].k = k
        /\ backoffCache[i].age <= backoffTtl
        /\ backoffCache[i].age < calculateDelay(backoffCache[i].v.attempts)

\* C21 (as stated): a getPayments call for a key whose cache entry has expired
\* reaches upstream.
C21_AsStated ==
    [][\A k \in Keys :
         (starts(k) /\ expired(k)) => (last'.cls = "admit" /\ last'.ups = 1)]_vars

\* C21 (amended): a call is served from the cache exactly when the key's entry
\* has an age (time since it was stored or last served) within the TTL; the
\* hit restarts the entry's age and makes it the most recently used; a call
\* that finds no entry or an expired one is a miss that leaves no entry for the
\* key, and it reaches upstream unless the key's backoff entry is in its
\* cool-down, in which case it is Throttled.
C21_SlidingExpiry ==
    [][\A k \in Keys :
         starts(k)
           => /\ last'.cls = "hit" <=> servable(k)
              /\ servable(k)
                   => /\ lruEntry(cache', k).age = 0
                      /\ cache'[Len(cache')].k = k
                      /\ last'.res = Some(lruEntry(cache, k).v)
              /\ ~servable(k)
                   => /\ ~lruHas(cache', k)
                      /\ IF cooling(k) THEN last'.cls = "thr" /\ last'.ups = 0
                         ELSE last'.cls = "admit" /\ last'.ups = 1]_vars

\* C21: the last call for a key was served from the cache, the entry has
\* expired since, and the call just issued has gone upstream
C21_ExpiredRefetched ==
    /\ last.cls = "admit"
    /\ prev[last.k].cls = "hit"
    /\ prev[last.k].age > CacheTtlMs
    /\ ~lruHas(cache, last.k)

\* the keys a store holds
keysOf(s) == {s[i].k : i \in 1..Len(s)}

\* C22: the cache never holds more than CacheMaxItems entries; a result stored
\* for a key the cache already holds, or while the cache is below capacity,
\* evicts nothing; a result stored for a new key at capacity evicts exactly one
\* entry, and no entry that stays was used (stored or served) longer ago than
\* the evicted one.
C22_LruBounded ==
    [][/\ Len(cache') <= CacheMaxItems
       /\ Cardinality(keysOf(cache')) = Len(cache')
       /\ (last'.cls = "ok" /\ ~last'.recov)
            => LET k == last'.k
               IN IF k \in keysOf(cache) \/ Len(cache) < CacheMaxItems
                    THEN /\ keysOf(cache') = keysOf(cache) \cup {k}
                         /\ last'.ev = {}
                    ELSE \E i \in 1..Len(cache) :
                           /\ keysOf(cache') = (keysOf(cache) \ {cache[i].k}) \cup {k}
                           /\ last'.ev = {cache[i].k}
                           /\ \A j \in 1..Len(cache) : cache[i].age >= cache[j].age
                           /\ \A j \in 1..Len(cache) :
                                j # i => lruEntry(cache', cache[j].k) = cache[j]]_vars

\* C22: a result has just been stored in a full cache and has evicted an entry,
\* while an entry stored before the evicted one, and served since, has stayed
C22_EvictedLeastRecent ==
    /\ last.cls = "ok"
    /\ last.ev # {}
    /\ Len(cache) = CacheMaxItems
    /\ \E x \in keysOf(cache) :
         /\ prev[x].cls = "hit"
         /\ lruEntry(cache, x).age > 0
         /\ lruEntry(cache, x).age <= CacheTtlMs

\* C23 (as stated): a successful call that overlapped another call for its key
\* writes the cache, so the cache then holds its result.
C23_AsStated ==
    [][(last'.cls = "ok" /\ ~last'.solo)
         => lruGet(cache', last'.k, CacheTtlMs) = last'.res]_vars

\* C23 (amended): a call that misses the cache outside a cool-down is admitted
\* and makes its own upstream call even while other calls for the key are in
\* flight, which it leaves as they are; of the calls that overlapped, each
\* successful one that was not admitted while the key had a live backoff entry
\* writes the cache, replacing what an earlier one wrote, and a successful one
\* that was admitted while the key had a live backoff entry leaves the cache as
\* it was: the entry left is the result of the last finished of the former.
C23_NotCoalesced ==
    [][/\ \A k \in Keys :
            (starts(k) /\ flying(k) # {} /\ ~servable(k) /\ ~cooling(k))
              => /\ last'.cls = "admit" /\ last'.ups = 1
                 /\ Cardinality({c \in Calls : calls'[c].pc = "calling"
                                                 /\ cacheKey(calls'[c].q) = k})
                      = Cardinality({c \in Calls : calls[c].pc = "calling"
                                                     /\ cacheKey(calls[c].q) = k}) + 1
                 /\ \A c \in flying(k) : calls'[c] = calls[c]
       /\ (last'.cls = "ok" /\ ~last'.solo /\ ~last'.recov)
            => /\ lruGet(cache', last'.k, CacheTtlMs) = last'.res
               /\ lruEntry(cache', last'.k).age = 0
       /\ (last'.cls = "ok" /\ ~last'.solo /\ last'.recov) => cache' = cache]_vars

\* C23: the second of two overlapping calls has just succeeded and replaced the
\* different result the first one had cached
C23_LastWriterWon ==
    /\ last.cls = "ok"
    /\ ~last.solo
    /\ last.had # None
    /\ last.had # last.res
    /\ lruGet(cache, last.k, CacheTtlMs) = last.res
    /\ flying(last.k) = {}

\* the results an upstream page can give a query
resultsFor(q) == {Some(normalize(page, q.asset)) : page \in Pages}

\* the step is the successful end of the call in slot c, after rejected attempts
\* (the engine retries a rejection with a 5xx status and one without a status
\* alike: neither a status below 500)
succeedsAfterRetry(c) ==
    /\ calls[c].pc = "calling"
    /\ calls[c].attempt > 1
    /\ calls'[c].pc = "idle"
    /\ last'.cls = "ok"

\* C24 (as stated): a call that succeeds after fewer than maxRetries rejected
\* attempts returns the normalised page of the successful attempt, has made one
\* upstream call more than it had failures, records no backoff entry, and its
\* result is then in the cache.
C24_AsStated ==
    [][\A c \in Calls :
         succeedsAfterRetry(c)
           => /\ last'.res \in resultsFor(calls[c].q)
              /\ last'.ups = (calls[c].attempt - 1) + 1
              /\ backoffCache' = backoffCache
              /\ lruGet(cache', last'.k, CacheTtlMs) = last'.res]_vars

\* C24 (amended): an attempt rejected with a 5xx before the last one changes
\* neither store; a call that succeeds after such attempts returns the
\* normalised page of the successful attempt, has made one upstream call more
\* than it had failures, and records no backoff entry; its result is cached if
\* the key had no live backoff entry when the call was admitted, and otherwise
\* the cache stays as it was.
C24_RetryThenSuccess ==
    [][/\ (last'.cls = "retry" /\ last'.up = "5xx")
            => /\ backoffCache' = backoffCache
               /\ cache' = cache
               /\ last'.ups < maxRetries
       /\ \A c \in Calls :
            succeedsAfterRetry(c)
              => /\ last'.res \in resultsFor(calls[c].q)
                 /\ last'.ups = (calls[c].attempt - 1) + 1
                 /\ last'.ups <= maxRetries
                 /\ backoffCache' = backoffCache
                 /\ IF calls[c].wasInBackoff
                      THEN cache' = cache
                      ELSE /\ lruGet(cache', last'.k, CacheTtlMs) = last'.res
                           /\ lruEntry(cache', last'.k).age = 0]_vars

\* C24: a call has just succeeded on its third upstream call, and its result is
\* cached while the key has no backoff entry
C24_ThirdAttemptServed ==
    /\ last.cls = "ok"
    /\ last.ups = maxRetries
    /\ ~last.recov
    /\ lruGet(cache, last.k, CacheTtlMs) = last.res
    /\ ~lruHas(backoffCache, last.k)

\* C25: the nextCursor of a fetched result is absent exactly when the raw page
\* is empty, and otherwise is the paging token of the last raw record of the
\* page, whatever its kind and asset.
C25_CursorOfRawPage ==
    last.cls = "ok"
      => LET result == last.res[1]
             n == Len(last.raw)
         IN /\ result.nextCursor = None <=> n = 0
            /\ n > 0 => result.nextCursor = Some(last.raw[n].paging_token)

\* C25: a fetched result has no items and yet a nextCursor, the token of a
\* payment record that the asset filter dropped
C25_CursorWithoutItems ==
    /\ last.cls = "ok"
    /\ last.res[1].items = <<>>
    /\ Len(last.raw) > 1
    /\ last.raw[Len(last.raw)].type = "payment"
    /\ last.res[1].nextCursor = Some(last.raw[Len(last.raw)].paging_token)

\* the operation kinds that represent a payment
PaymentKinds == {"payment", "path_payment_strict_receive", "path_payment_strict_send"}

\* the raw records of a page that are of a payment kind, in page order
paymentsOf(raw) == SelectSeq(raw, LAMBDA r : r.type \in PaymentKinds)

\* C26: a page with records of any kinds is normalised without error; every
\* item of the result is built from a raw record of a payment kind, and when
\* the query has no asset filter the items are, in page order, one for each
\* raw record of a payment kind, with that record's amount, time stamp,
\* transaction hash and paging token.
C26_PaymentKindsOnly ==
    last.cls = "ok"
      => LET items == last.res[1].items
             pays == paymentsOf(last.raw)
         IN /\ last.http = 0
            /\ \A i \in 1..Len(items) :
                 \E j \in 1..Len(pays) :
                   /\ items[i].pagingToken = pays[j].paging_token
                   /\ items[i].txHash = pays[j].transaction_hash
            /\ last.q.asset = None
                 => /\ Len(items) = Len(pays)
                    /\ \A i \in 1..Len(pays) :
                         /\ items[i].pagingToken = pays[i].paging_token
                         /\ items[i].txHash = pays[i].transaction_hash
                         /\ items[i].amount = pays[i].amount
                         /\ items[i].timestamp = pays[i].created_at

\* C26: a page that holds an account creation between two path payments has
\* just been fetched without asset filter, and the result has the two items
C26_CreationDropped ==
    /\ last.cls = "ok"
    /\ last.q.asset = None
    /\ last.raw = <<RecIssued, RecCreate, RecReceive>>
    /\ Len(last.res[1].items) = 2

\* the asset string of a raw record: XLM for a native one, code:issuer otherwise
resolvedAsset(r) ==
    IF r.asset_type \in {"", "native"} THEN "XLM" ELSE r.asset_code \o ":" \o r.asset_issuer

\* the raw records of a page that are of a payment kind and of asset a
paymentsIn(raw, a) == SelectSeq(paymentsOf(raw), LAMBDA r : resolvedAsset(r) = a)

\* the items are, in page order, one for each of the records
itemsMatch(items, records) ==
    /\ Len(items) = Len(records)
    /\ \A i \in 1..Len(records) :
         /\ items[i].pagingToken = records[i].paging_token
         /\ items[i].asset = resolvedAsset(records[i])

\* C27 (as stated): when the query has an asset filter, whatever string it is,
\* the items of a fetched result are those of the payment records of that
\* asset, and when it has none, those of all payment records.
C27_AsStated ==
    last.cls = "ok"
      => IF last.q.asset # None
           THEN /\ \A i \in 1..Len(last.res[1].items) :
                     last.res[1].items[i].asset = last.q.asset[1]
                /\ itemsMatch(last.res[1].items, paymentsIn(last.raw, last.q.asset[1]))
           ELSE itemsMatch(last.res[1].items, paymentsOf(last.raw))

\* C27 (amended): when the query has a non-empty asset filter, every item of a
\* fetched result has exactly that asset string and the items are, in page
\* order, one for each payment record of the page whose asset string equals the
\* filter; when the filter is absent or the empty string, the items are those
\* of all payment records.
C27_ExactAssetFilter ==
    last.cls = "ok"
      => IF last.q.asset # None /\ last.q.asset # Some("")
           THEN /\ \A i \in 1..Len(last.res[1].items) :
                     last.res[1].items[i].asset = last.q.asset[1]
                /\ itemsMatch(last.res[1].items, paymentsIn(last.raw, last.q.asset[1]))
           ELSE itemsMatch(last.res[1].items, paymentsOf(last.raw))

\* C27: a page with payments of three assets has just been fetched under the
\* filter USDC:GUSDC, and the result has the one item of that asset
C27_OneAssetKept ==
    /\ last.cls = "ok"
    /\ last.q.asset = Some("USDC:GUSDC")
    /\ last.raw = <<RecNative, RecIssued, RecReceive>>
    /\ Len(last.res[1].items) = 1
    /\ last.res[1].items[1].asset = "USDC:GUSDC"

\* the memo look-up of a payment record of the page failed
lookupFailed(raw) == \E i \in 1..Len(raw) : raw[i].type \in PaymentKinds /\ raw[i].tx.fails

\* C28: when the page of the successful attempt holds payment records whose
\* memo look-up fails, the call still ends with a result and no error, the
\* attempt is not repeated, and the step leaves the backoff store as it was;
\* with no asset filter the result has one item for each payment record, the
\* item of a record whose look-up failed without memo, the item of every other
\* record with the memo of its transaction, and all of them with the record's
\* amount, asset, time stamp, transaction hash and paging token.
C28_MemoFailureTolerated ==
    [][\A c \in Calls :
         (/\ calls[c].pc = "calling"
          /\ calls'[c].pc = "idle"
          /\ last'.cls = "ok"
          /\ lookupFailed(last'.raw))
           => LET items == last'.res[1].items
                  pays == paymentsOf(last'.raw)
              IN /\ last'.kind = "Ok" /\ last'.http = 0
                 /\ last'.ups = calls[c].attempt
                 /\ last'.att = 0
                 /\ backoffCache' = backoffCache
                 /\ calls[c].q.asset = None
                      => /\ Len(items) = Len(pays)
                         /\ \A i \in 1..Len(pays) :
                              /\ items[i].memo = IF pays[i].tx.fails THEN None
                                                 ELSE pays[i].tx.memo
                              /\ items[i].amount = pays[i].amount
                              /\ items[i].asset = resolvedAsset(pays[i])
                              /\ items[i].timestamp = pays[i].created_at
                              /\ items[i].txHash = pays[i].transaction_hash
                              /\ items[i].pagingToken = pays[i].paging_token]_vars

\* C28: a page whose first payment has a failing memo look-up has just been
\* fetched: its item is there without memo, the item after it has its memo
C28_ItemWithoutMemo ==
    /\ last.cls = "ok"
    /\ last.raw = <<RecIssued, RecNative>>
    /\ Len(last.res[1].items) = 2
    /\ last.res[1].items[1].memo = None
    /\ last.res[1].items[1].txHash = "hash3"
    /\ last.res[1].items[2].memo = Some("test memo")
    /\ ~lruHas(backoffCache, last.k)

\* C29: clearCache() empties both stores, so the stats then report 0 cache
\* entries and 0 backoff entries, and the call that follows it at once, be it
\* for a key that was cached or for one that was in its cool-down, is admitted
\* and goes upstream; at all times the stats report the number of keys each
\* store holds, the configured capacity and the configured TTL.
C29_ClearAndStats ==
    [][/\ last'.cls = "clear"
            => /\ cache' = <<>> /\ backoffCache' = <<>>
               /\ getCacheStats(cache', backoffCache').entries = 0
               /\ getCacheStats(cache', backoffCache').backoffEntries = 0
       /\ \A k \in Keys :
            (last.cls = "clear" /\ starts(k))
              => (last'.cls = "admit" /\ last'.ups = 1 /\ last'.http = 0)
       /\ getCacheStats(cache', backoffCache').entries = Cardinality(keysOf(cache'))
       /\ getCacheStats(cache', backoffCache').backoffEntries
            = Cardinality(keysOf(backoffCache'))
       /\ getCacheStats(cache', backoffCache').maxEntries = CacheMaxItems
       /\ getCacheStats(cache', backoffCache').ttl = CacheTtlMs]_vars

\* C29: clearCache() has just dropped the cache entry of a key and ended the
\* cool-down of a key
C29_Cleared ==
    /\ last.cls = "clear"
    /\ last.ev # {}
    /\ last.cool # {}
    /\ getCacheStats(cache, backoffCache).entries = 0
    /\ getCacheStats(cache, backoffCache).backoffEntries = 0

\* C30 (as stated): the sleep the engine starts after a rejected attempt is the
\* exponential delay min(baseDelay * 2^(attempt-1), maxDelay) plus a jitter, a
\* random extra of at most that delay, so it is not the bare delay the gate uses.
C30_AsStated ==
    [][\A c \in Calls :
         (calls[c].pc = "calling" /\ calls'[c].pc = "sleeping")
           => LET delay == Min(baseDelay * Pow2(calls[c].attempt - 1), maxDelay)
              IN /\ calls'[c].left > delay
                 /\ calls'[c].left <= delay + delay]_vars

\* the largest number of attempts the delay is computed for
MaxDelayArg == 12

\* C31: a call that misses the cache is rejected by the gate if and only if the
\* key has a backoff entry whose age (now - lastAttempt) is below
\* min(baseDelay * 2^(attempts-1), maxDelay), whatever else the stores hold and
\* whatever calls are in flight, and is admitted otherwise; the delay the gate
\* requires grows with attempts, is never below baseDelay and never above
\* maxDelay.
C31_GateDecision ==
    [][/\ \A k \in Keys :
            (starts(k) /\ ~servable(k))
              => /\ last'.cls \in {"thr", "admit"}
                 /\ last'.cls = "thr"
                      <=> \E i \in 1..Len(backoffCache) :
                            /\ backoffCache[i].k = k
                            /\ backoffCache[i].age
                                 < Min(baseDelay * Pow2(backoffCache[i].v.attempts - 1),
                                       maxDelay)
       /\ \A a \in 1..MaxDelayArg :
            /\ calculateDelay(a) <= calculateDelay(a + 1)
            /\ calculateDelay(a) >= baseDelay
            /\ calculateDelay(a) <= maxDelay]_vars

\* C31: a call has just been rejected 150 ms after the last failure, which only
\* an entry with three attempts still blocks
C31_BlockedByThirdAttempt ==
    /\ last.cls = "thr"
    /\ lruEntry(backoffCache, last.k).v.attempts = maxRetries
    /\ lruEntry(backoffCache, last.k).age >= calculateDelay(maxRetries - 1)
    /\ lruEntry(backoffCache, last.k).age < calculateDelay(maxRetries)

\* the milliseconds a wait hint names
hintMs(h) == h.whole * 1000 + h.thousandths

\* C32: the wait hint of a Throttled error is the delay the key's backoff entry
\* requires, min(baseDelay * 2^(attempts-1), maxDelay), less the time since its
\* lastAttempt, to the millisecond; it is positive and at most that delay.
C32_WaitHint ==
    last.cls = "thr"
      => LET e == lruEntry(backoffCache, last.k)
             required == Min(baseDelay * Pow2(e.v.attempts - 1), maxDelay)
         IN /\ lruHas(backoffCache, last.k)
            /\ last.hint.thousandths \in 0..999
            /\ hintMs(last.hint) = required - e.age
            /\ hintMs(last.hint) > 0
            /\ hintMs(last.hint) <= required

\* C32: a call has just been rejected part of the way through a cool-down, with
\* a hint shorter than the delay the entry requires
C32_PartWayHint ==
    /\ last.cls = "thr"
    /\ lruEntry(backoffCache, last.k).age > 0
    /\ hintMs(last.hint) = 150
    /\ hintMs(last.hint) < calculateDelay(lruEntry(backoffCache, last.k).v.attempts)

\* the entries a store holds, whatever their order of use
entrySet(s) == {s[i] : i \in 1..Len(s)}

\* C33: a Throttled rejection leaves every backoff entry with its key, attempts
\* and age (the time since lastAttempt, so the cool-down is not extended),
\* leaves the live entries of the cache as they were, and starts no call.
C33_ThrottledChangesNothing ==
    [][last'.cls = "thr"
         => /\ entrySet(backoffCache') = entrySet(backoffCache)
            /\ lruEntry(backoffCache', last'.k).v.attempts
                 = lruEntry(backoffCache, last'.k).v.attempts
            /\ lruEntry(backoffCache', last'.k).age = lruEntry(backoffCache, last'.k).age
            /\ liveOf(cache') = liveOf(cache)
            /\ calls' = calls]_vars

\* C33: a call has just been rejected 50 ms into the cool-down of an entry with
\* two attempts, which still has that age
C33_RejectedMidway ==
    /\ last.cls = "thr"
    /\ lruEntry(backoffCache, last.k).v.attempts = 2
    /\ lruEntry(backoffCache, last.k).age = baseDelay
    /\ last.wait = baseDelay

\* the backoff store b holds a live entry for key k that is in its cool-down
coolingIn(b, k) ==
    \E i \in 1..Len(b) :
        /\ b[i].k = k
        /\ b[i].age <= backoffTtl
        /\ b[i].age < Min(baseDelay * Pow2(b[i].v.attempts - 1), maxDelay)

\* the step is a step of a getPayments call for a key other than k
otherCallStep(k) == last'.cls \notin {"none", "clear"} /\ last'.k # k

\* the step records a failure for a key new to the backoff store, which is full
\* and has the entry of key k as its least recently used one
evicts(k) ==
    /\ last'.att >= 1
    /\ ~lruHas(backoffCache, last'.k)
    /\ Len(backoffCache) >= backoffMax
    /\ backoffCache[1].k = k

\* C34 (as stated): a key that is in its cool-down is still in its cool-down
\* after any step of a call for another key.
C34_AsStated ==
    [][\A k \in Keys :
         (coolingIn(backoffCache, k) /\ otherCallStep(k)) => coolingIn(backoffCache', k)]_vars

\* C34 (amended): a key that is in its cool-down is still in its cool-down, with
\* the same entry, after any step of a call for another key, and a call for it
\* that misses the cache is rejected without an upstream call, unless the step
\* records a failure for a key that has no entry while the backoff store holds
\* backoffMax entries of which the key's is the least recently used: that
\* entry, and no other, is then evicted.
C34_BlockedUnlessEvicted ==
    [][/\ \A k \in {cacheKey(Q1), cacheKey(Q2)} :
            /\ (coolingIn(backoffCache, k) /\ otherCallStep(k) /\ ~evicts(k))
                 => /\ coolingIn(backoffCache', k)
                    /\ lruEntry(backoffCache', k) = lruEntry(backoffCache, k)
            /\ (coolingIn(backoffCache, k) /\ otherCallStep(k) /\ evicts(k))
                 => ~lruHas(backoffCache', k)
            /\ (coolingIn(backoffCache, k) /\ starts(k) /\ ~servable(k))
                 => (last'.cls = "thr" /\ last'.ups = 0 /\ calls' = calls)
       /\ (last'.att >= 1 /\ ~lruHas(backoffCache, last'.k))
            => /\ Len(backoffCache') <= backoffMax
               /\ SubSeq(backoffCache', 1, Len(backoffCache') - 1)
                    = IF Len(backoffCache) >= backoffMax
                      THEN Tail(backoffCache) ELSE backoffCache]_vars

\* C34: a failure has just been recorded for Q2, new to the full backoff store,
\* and Q1, whose entry a rejected call had made the most recently used, is
\* still in its cool-down
C34_StillBlocked ==
    /\ last.cls = "429"
    /\ last.k = cacheKey(Q2)
    /\ last.att = 1
    /\ Len(backoffCache) = backoffMax
    /\ coolingIn(backoffCache, cacheKey(Q1))
    /\ backoffCache[1].k = cacheKey(OtherQuery(3))

ErrorKinds == {"InternalError", "RateLimited", "UpstreamUnavailable",
               "UpstreamInternalError", "InvalidRequest"}

\* C37: every admitted call ends, provided each upstream call and each sleep
\* completes; it is never past attempt maxRetries, it sleeps only after an
\* attempt before the last and for no longer than the capped delay of that
\* attempt, and it ends with a result or a classified error after at most
\* maxRetries upstream calls.
C37_CallTerminates ==
    /\ [](\A c \in Calls :
            /\ inFlight(c) => calls[c].attempt \in 1..maxRetries
            /\ calls[c].pc = "sleeping"
                 => /\ calls[c].attempt <= maxRetries - 1
                    /\ calls[c].left <= calculateDelay(calls[c].attempt)
                    /\ calls[c].left <= maxDelay)
    /\ [][\A c \in Calls :
            (inFlight(c) /\ calls'[c].pc = "idle")
              => /\ last'.ups = calls[c].attempt
                 /\ last'.ups <= maxRetries
                 /\ \/ last'.kind = "Ok" /\ last'.res # None /\ last'.http = 0
                    \/ last'.kind \in ErrorKinds /\ last'.res = None /\ last'.http >= 400]_vars
    /\ \A c \in Calls : inFlight(c) ~> (calls[c].pc = "idle")

\* C37: a call has ended with a classified error after maxRetries upstream
\* calls and maxRetries - 1 sleeps
C37_EndedAfterLastAttempt ==
    /\ last.ups = maxRetries
    /\ last.kind = "UpstreamUnavailable"
    /\ last.http = SERVICE_UNAVAILABLE
    /\ \A c \in Calls : ~inFlight(c)

\* the places 1..n of a page taken by m records, in page order
Places(m, n) == {f \in [1..m -> 1..n] : \A i, j \in 1..m : i < j => f[i] < f[j]}

\* C38: the items of a fetched result are built from raw records of the page
\* taken in page order (item i from a record that comes before the record of
\* item i + 1), whether their memo look-ups succeeded or failed, and the
\* asset of each is "XLM" when its record is of the native asset and
\* "CODE:ISSUER", from the record's code and issuer, when it is not.
C38_OrderAndAssetKept ==
    last.cls = "ok"
      => LET items == last.res[1].items
             raw == last.raw
         IN \E f \in Places(Len(items), Len(raw)) :
               \A i \in 1..Len(items) :
                  LET r == raw[f[i]]
                  IN /\ items[i].pagingToken = r.paging_token
                     /\ items[i].txHash = r.transaction_hash
                     /\ r.asset_type = "native" => items[i].asset = "XLM"
                     /\ r.asset_type # "native"
                          => items[i].asset = r.asset_code \o ":" \o r.asset_issuer

\* C38: a page whose first payment's memo look-up fails has just been fetched
\* without asset filter, and the three items come in page order with the
\* assets of their records
C38_ThreeInPageOrder ==
    /\ last.cls = "ok"
    /\ last.q.asset = None
    /\ last.raw = <<RecIssued, RecReceive, RecNative>>
    /\ Len(last.res[1].items) = 3
    /\ last.res[1].items[1].asset = "USDC:GUSDC"
    /\ last.res[1].items[2].asset = "EURCOIN:GEUR"
    /\ last.res[1].items[3].asset = "XLM"
    /\ last.res[1].items[3].pagingToken = "token1"

====
